---- MODULE Spec2Model ----
(***************************************************************************)
(* The MDict container reader of src/mdict/read_mdict.py as a state        *)
(* machine: MDict.__init__ (header read, primary key read, brutal-force    *)
(* fallback), MDX.get_index / MDD.get_index, keys() and len(); the outer   *)
(* loop of MDict._split_key_block on a key block given byte by byte; and   *)
(* the Litestar application of src/server.py (startup and GET requests).   *)
(*                                                                         *)
(* The archive is kept as the fields the reader takes out of its bytes.    *)
(* A checksum is an attribute of the bytes it is computed over (field      *)
(* sum), the stored checksum is a separate field (adler); a decompressed   *)
(* body is the field body of its block.  An attribute the reader has not   *)
(* assigned yet is absent from self.set, as in the object's __dict__.      *)
(* An exception is the string "<Type>:<line of read_mdict.py raising it>". *)
(***************************************************************************)
EXTENDS Integers, Sequences, FiniteSets, TLC

VARIABLES
    file,           \* the archive on disk
    args,           \* constructor arguments: kind, encoding, passcode
    lzo,            \* TRUE iff the module-level name lzo is not None
    pc,             \* position of MDict.__init__, then "open" or "failed"
    self,           \* the MDict object under construction / constructed
    error,          \* the exception __init__ ended with ("" if none)
    primary_error,  \* the exception caught by the bare except at line 97
    scan,           \* locals of the while True loop of _read_keys_brutal
    split,          \* the key block and the locals of _split_key_block
    result,         \* outcome of the last get_index / keys / len call
    handles,        \* file objects opened and never closed by the reader
    calls,          \* number of public calls made on the opened archive
    server          \* the Litestar application of server.py

vars == <<file, args, lzo, pc, self, error, primary_error, scan, result,
          handles, calls, server, split>>

-----------------------------------------------------------------------------
(* Bounds of the model *)

MaxTriples == 2      \* StyleSheet triples in a header
MaxChunks == 2       \* 1 KiB chunks between the scan start and end of file
MaxKeyBlocks == 2    \* key blocks of an archive
MaxKeys == 3         \* keys of the key list where record offsets vary
MaxOffset == 2       \* largest record offset of a key
MaxSize == 2         \* largest decompressed size of a record block
MaxBlocks == 2       \* record blocks of an archive
MaxCalls == 2        \* public calls on an opened archive
MaxBlockLen == 9     \* bytes of a decompressed key block given byte by byte
MaxSplitKeys == 3    \* keys _split_key_block collects from such a block

-----------------------------------------------------------------------------
(* Python values *)

NoError == ""

Bytes(s) == <<"bytes", s>>          \* the bytes object b"s"
Str(s) == <<"str", s>>              \* the str object "s"

EmptyDict == [k \in {} |-> <<>>]

DictSet(d, k, v) == [x \in DOMAIN d \cup {k} |-> IF x = k THEN v ELSE d[x]]

\* dict.get(k): <<>> stands for None, <<v>> for the value found
DictGet(d, k) == IF k \in DOMAIN d THEN <<d[k]>> ELSE <<>>

RECURSIVE SumSeq(_)
SumSeq(s) == IF s = <<>> THEN 0 ELSE Head(s) + SumSeq(Tail(s))

\* str.upper() on the encodings callers pass
Upper(s) ==
    CASE s = "utf-8" -> "UTF-8"
      [] s = "utf-16" -> "UTF-16"
      [] s = "gbk" -> "GBK"
      [] OTHER -> s

\* float() of a GeneratedByEngineVersion value, in tenths
Float10(s) ==
    CASE s = "1.2" -> 12
      [] s = "2.0" -> 20
      [] OTHER -> 0

\* int() of an Encrypted value; -1 stands for the ValueError
IntOf(s) ==
    CASE s = "0" -> 0
      [] s = "1" -> 1
      [] s = "2" -> 2
      [] s = "3" -> 3
      [] OTHER -> -1

-----------------------------------------------------------------------------
(* Header parsing.  An attribute value is the sequence of its lines. *)

\* the four replacements of _unescape_entities, &amp; last, on one line
UnescapeLine(l) ==
    CASE l = "&lt;b&gt;" -> "<b>"
      [] l = "&lt;/b&gt;" -> "</b>"
      [] l = "&amp;lt;" -> "&lt;"
      [] l = "&quot;" -> "\""
      [] OTHER -> l

unescape_entities(text) == [i \in 1..Len(text) |-> UnescapeLine(text[i])]

\* re.findall gives the (name, value) pairs in order; a later pair with the
\* same name overwrites the earlier one; the keys are bytes objects
RECURSIVE parse_header_from(_, _)
parse_header_from(tag_list, tag_dict) ==
    IF tag_list = <<>> THEN tag_dict
    ELSE parse_header_from(Tail(tag_list),
             DictSet(tag_dict, Bytes(Head(tag_list)[1]),
                     unescape_entities(Head(tag_list)[2])))

parse_header(header) == parse_header_from(header, EmptyDict)

\* lines 243-244
NormalizeEncoding(encoding) ==
    IF encoding \in {"GBK", "GB2312"} THEN "GB18030" ELSE encoding

\* the lookup of line 265: header_tag.get("StyleSheet"), a str key
StyleSheetLookup(header_tag) == DictGet(header_tag, Str("StyleSheet"))

\* lines 267-268: one entry per triple of lines; IndexError when the last
\* group is short
RECURSIVE StyleSheetFrom(_, _, _)
StyleSheetFrom(lines, i, sheet) ==
    IF i > Len(lines) THEN [err |-> NoError, val |-> sheet]
    ELSE IF i + 2 > Len(lines) THEN [err |-> "IndexError:268", val |-> sheet]
    ELSE StyleSheetFrom(lines, i + 3,
             DictSet(sheet, lines[i], <<lines[i + 1], lines[i + 2]>>))

\* lines 257-262; -1 stands for the ValueError of int()
EncryptOf(header_tag) ==
    IF Bytes("Encrypted") \notin DOMAIN header_tag
       \/ header_tag[Bytes("Encrypted")] = <<"No">> THEN 0
    ELSE IF header_tag[Bytes("Encrypted")] = <<"Yes">> THEN 1
    ELSE IF Len(header_tag[Bytes("Encrypted")]) = 1
         THEN IntOf(header_tag[Bytes("Encrypted")][1])
    ELSE -1

\* lines 247-255: the attribute's text, or "" (no lines) when it is absent
HeaderText(header_tag, name) ==
    IF Bytes(name) \in DOMAIN header_tag THEN header_tag[Bytes(name)] ELSE <<>>

\* the header read without its checksum assertion
HeaderChecksumSkipped(f) == TRUE

\* line 233
HeaderChecksumOk(f) == f.hdr_adler = f.hdr_sum

Assign(slf, name, v) == [slf EXCEPT ![name] = v, !.set = @ \cup {name}]

\* MDict._read_header after the file is open: [err, slf, closed]; closed
\* tells whether f.close() at line 235 was reached
read_header(slf, f) ==
    IF ~HeaderChecksumOk(f)
    THEN [err |-> "AssertionError:233", slf |-> slf, closed |-> FALSE]
    ELSE
    LET s1 == Assign(slf, "key_block_offset", 4 + f.header_size + 4)
        header_tag == parse_header(f.attrs)
        needEnc == s1.encoding = ""
    IN  IF needEnc /\ Bytes("Encoding") \notin DOMAIN header_tag
        THEN [err |-> "KeyError:240", slf |-> s1, closed |-> TRUE]
        ELSE
        LET enc == IF needEnc
                   THEN IF header_tag[Bytes("Encoding")] = <<>> THEN ""
                        ELSE NormalizeEncoding(header_tag[Bytes("Encoding")][1])
                   ELSE s1.encoding
            s2 == Assign(s1, "encoding", enc)
            e == EncryptOf(header_tag)
        IN  IF e < 0
            THEN [err |-> "ValueError:262",
                  slf |-> Assign(Assign(s2, "title", HeaderText(header_tag, "Title")),
                                 "description", HeaderText(header_tag, "Description")),
                  closed |-> TRUE]
            ELSE
            LET s2a == Assign(s2, "title", HeaderText(header_tag, "Title"))
                s2b == Assign(s2a, "description",
                              HeaderText(header_tag, "Description"))
                s3 == Assign(s2b, "encrypt", e)
                found == StyleSheetLookup(header_tag)
                sheet == IF found # <<>> /\ found[1] # <<>>
                         THEN StyleSheetFrom(found[1], 1, EmptyDict)
                         ELSE [err |-> NoError, val |-> EmptyDict]
                s4 == Assign(s3, "stylesheet", sheet.val)
            IN  IF sheet.err # NoError
                THEN [err |-> sheet.err, slf |-> s4, closed |-> TRUE]
                ELSE IF Bytes("GeneratedByEngineVersion") \notin DOMAIN header_tag
                THEN [err |-> "KeyError:270", slf |-> s4, closed |-> TRUE]
                ELSE
                LET v == Float10(header_tag[Bytes("GeneratedByEngineVersion")][1])
                    s5 == Assign(s4, "version", v)
                    s6 == Assign(s5, "number_width", IF v < 20 THEN 4 ELSE 8)
                IN  [err |-> NoError,
                     slf |-> Assign(s6, "header", header_tag),
                     closed |-> TRUE]

-----------------------------------------------------------------------------
(* Key section *)

V2(slf) == slf.version >= 20

\* _salsa_decrypt: a stream cipher, so applying it flips whether the
\* prelude bytes are plaintext
salsa_decrypt(block) == [block EXCEPT !.enc = ~@]

\* _mdx_decrypt on the key-block-info blob: bytes 0..7 kept, the rest
\* passed through _fast_decrypt
mdx_decrypt(blob) == [blob EXCEPT !.obfuscated = ~@]

zlib_adler32(body) == body.sum

\* line 165, reading self._num_entries
NumEntriesCheck(slf, num_entries) ==
    IF "num_entries" \notin slf.set THEN "AttributeError:165"
    ELSE IF num_entries # slf.num_entries THEN "AssertionError:165"
    ELSE NoError

\* MDict._decode_key_block_info: [err, list]; list holds the
\* (compressed_size, decompressed_size) pairs.  blob.truncated tells that
\* the blob handed in stops short of the real one.
decode_key_block_info(slf, blob) ==
    LET b1 == IF V2(slf) /\ slf.encrypt % 4 >= 2 THEN mdx_decrypt(blob) ELSE blob
        list == [i \in 1..Len(blob.items) |->
                    <<blob.items[i].csize, blob.items[i].dsize>>]
        num_entries == SumSeq([i \in 1..Len(blob.items) |-> blob.items[i].entries])
        chk == NumEntriesCheck(slf, num_entries)
    IN  IF V2(slf) /\ ~blob.tag_ok
        THEN [err |-> "AssertionError:115", list |-> <<>>]
        ELSE IF V2(slf) /\ (b1.obfuscated \/ b1.truncated)
        THEN [err |-> "zlib.error:118", list |-> <<>>]
        ELSE IF V2(slf) /\ b1.adler # zlib_adler32(b1)
        THEN [err |-> "AssertionError:120", list |-> <<>>]
        ELSE IF ~V2(slf) /\ (b1.obfuscated \/ b1.truncated)
        THEN [err |-> "struct.error:137", list |-> <<>>]
        ELSE IF chk # NoError
        THEN [err |-> chk, list |-> <<>>]
        ELSE [err |-> NoError, list |-> list]

\* MDict._split_key_block on a key block whose every record is an id and a
\* terminated text: the (key_id, key_text) pairs of the block
split_key_block(key_block) == key_block.keys

\* the bytes a key block given byte by byte is made of: NUL and "a"
BlockBytes == {0, 97}

\* the slice b[lo:hi] of a bytes object, indexes from 0
Slice(b, lo, hi) ==
    IF lo >= Len(b) \/ lo >= hi THEN <<>>
    ELSE SubSeq(b, lo + 1, IF hi < Len(b) THEN hi ELSE Len(b))

\* unpack of a big-endian unsigned number
RECURSIVE BigEndian(_)
BigEndian(b) ==
    IF b = <<>> THEN 0 ELSE 256 * BigEndian(SubSeq(b, 1, Len(b) - 1)) + b[Len(b)]

\* lines 206-211: the delimiter's width
DelimiterWidth(encoding) == IF encoding = "UTF-16" THEN 2 ELSE 1

Delimiter(encoding) == IF encoding = "UTF-16" THEN <<0, 0>> ELSE <<0>>

\* lines 213-217, the inner loop from i on: <<i>> where the delimiter is
\* found, <<>> when the loop ends without a break
RECURSIVE FindDelimiter(_, _, _)
FindDelimiter(key_block, i, encoding) ==
    IF i >= Len(key_block) THEN <<>>
    ELSE IF Slice(key_block, i, i + DelimiterWidth(encoding)) = Delimiter(encoding)
    THEN <<i>>
    ELSE FindDelimiter(key_block, i + DelimiterWidth(encoding), encoding)

\* bytes.decode(encoding, errors="ignore") on NUL and "a" bytes, as the code
\* points of the text: one per byte, or one per little-endian pair with a
\* trailing odd byte ignored; Bytes of them is their UTF-8 encoding
RECURSIVE Decode(_, _)
Decode(b, encoding) ==
    IF encoding = "UTF-16"
    THEN IF Len(b) < 2 THEN <<>>
         ELSE <<b[1] + 256 * b[2]>> \o Decode(SubSeq(b, 3, Len(b)), encoding)
    ELSE b

\* line 224: key_start_index = key_end_index + width
NextIndex(key_end_index, encoding) == key_end_index + DelimiterWidth(encoding)

\* one iteration of the outer loop of _split_key_block, lines 201-225, on the
\* locals sp: the locals after it, err telling the exception it raised.
\* key_end_index is <<>> while the local is unbound.
split_iteration(slf, sp) ==
    LET start == sp.key_start_index
        found == FindDelimiter(sp.key_block, start + slf.number_width, slf.encoding)
        key_end_index == IF found # <<>> THEN found ELSE sp.key_end_index
    IN  IF Len(sp.key_block) - start < slf.number_width
        THEN [sp EXCEPT !.err = "struct.error:202"]
        ELSE IF key_end_index = <<>>
        THEN [sp EXCEPT !.err = "UnboundLocalError:219"]
        ELSE [sp EXCEPT
                 !.key_end_index = key_end_index,
                 !.key_start_index = NextIndex(key_end_index[1], slf.encoding),
                 !.key_list = Append(@,
                     <<BigEndian(Slice(sp.key_block, start, start + slf.number_width)),
                       Bytes(Decode(Slice(sp.key_block, start + slf.number_width,
                                          key_end_index[1]), slf.encoding))>>)]

\* lines 181-183: an LZO block met without an LZO implementation
LzoMissing(tag, lz) == tag = 1 /\ ~lz

\* lines 178-191: the value of the local key_block after the type switch;
\* <<>> stands for the still unbound local
KeyBlockAfterSwitch(blk, key_block) ==
    IF blk.tag \in {0, 1, 2} THEN <<blk.body>> ELSE key_block

\* the for loop of MDict._decode_key_block from block i on: [err, key_list]
RECURSIVE decode_key_block_from(_, _, _, _, _)
decode_key_block_from(blocks, i, key_list, key_block, lz) ==
    IF i > Len(blocks) THEN [err |-> NoError, key_list |-> key_list]
    ELSE IF LzoMissing(blocks[i].tag, lz)
    THEN [err |-> NoError, key_list |-> key_list]
    ELSE
    LET kb == KeyBlockAfterSwitch(blocks[i], key_block)
    IN  IF kb = <<>>
        THEN [err |-> "UnboundLocalError:193", key_list |-> key_list]
        ELSE IF blocks[i].adler # zlib_adler32(kb[1])
        THEN [err |-> "AssertionError:194", key_list |-> key_list]
        ELSE decode_key_block_from(blocks, i + 1,
                 key_list \o split_key_block(kb[1]), kb, lz)

decode_key_block(blocks, lz) == decode_key_block_from(blocks, 1, <<>>, <<>>, lz)

\* bytes of the prelude read at lines 284-288, and of its checksum
PreludeBytes(slf) == IF V2(slf) THEN 8 * 5 ELSE 4 * 4
PreludeSumBytes(slf) == IF V2(slf) THEN 4 ELSE 0

KeyBlockSize(f) == SumSeq([i \in 1..Len(f.key_blocks) |-> f.key_blocks[i].csize])

\* file position of the first key block
KeyBlocksStart(slf, f) ==
    slf.key_block_offset + PreludeBytes(slf) + PreludeSumBytes(slf) + f.info.size

\* lines 290-294
PasscodeMissing(slf, a) == slf.encrypt % 2 = 1 /\ a.passcode = "None"

\* MDict._read_keys after the file is open: [err, slf, closed, key_list]
read_keys(slf, f, a, lz) ==
    LET raw == [enc |-> f.salsa]
        fail(e, s) == [err |-> e, slf |-> s, closed |-> FALSE, key_list |-> <<>>]
    IN  IF PasscodeMissing(slf, a) THEN fail("RuntimeError:292", slf)
        ELSE IF slf.encrypt % 2 = 1 /\ Bytes("RegisterBy") \notin DOMAIN slf.header
        THEN fail("KeyError:298", slf)
        ELSE
        LET block == IF slf.encrypt % 2 = 1 THEN salsa_decrypt(raw) ELSE raw
            \* counters read from bytes that are not plaintext are garbage
            num_key_blocks == IF block.enc THEN f.num_key_blocks + 5 ELSE f.num_key_blocks
            num_entries == IF block.enc THEN f.num_entries + 7 ELSE f.num_entries
            s1 == Assign(slf, "num_entries", num_entries)
        IN  IF V2(slf) /\ (block.enc \/ f.prelude_adler # f.prelude_sum)
            THEN fail("AssertionError:314", s1)
            ELSE IF block.enc THEN fail("struct.error:137", s1)
            ELSE
            LET info == decode_key_block_info(s1, f.info)
            IN  IF info.err # NoError THEN fail(info.err, s1)
                ELSE IF num_key_blocks # Len(info.list)
                THEN fail("AssertionError:318", s1)
                ELSE
                LET kl == decode_key_block(f.key_blocks, lz)
                IN  IF kl.err # NoError THEN fail(kl.err, s1)
                    ELSE [err |-> NoError,
                          slf |-> Assign(s1, "record_block_offset",
                                         KeyBlocksStart(s1, f) + KeyBlockSize(f)),
                          closed |-> TRUE,
                          key_list |-> kl.key_list]

\* the type tag _read_keys_brutal searches for (lines 334, 337)
MarkerTag(slf) == IF V2(slf) THEN 2 ELSE 1

\* lines 354-364, once the scan has found the marker:
\* [err, slf, closed, key_list]
read_keys_brutal_rest(slf, f, lz) ==
    LET fail(e) == [err |-> e, slf |-> slf, closed |-> FALSE, key_list |-> <<>>]
        blob == [f.info EXCEPT !.truncated = ~f.scan.exact]
        info == decode_key_block_info(slf, blob)
    IN  IF info.err # NoError THEN fail(info.err)
        ELSE IF info.list = <<>> THEN fail("IndexError:355")
        ELSE
        LET kl == decode_key_block(f.key_blocks, lz)
        IN  IF kl.err # NoError THEN fail(kl.err)
            ELSE
            LET s1 == Assign(slf, "record_block_offset",
                             KeyBlocksStart(slf, f) + KeyBlockSize(f))
            IN  [err |-> NoError,
                 slf |-> Assign(s1, "num_entries", Len(kl.key_list)),
                 closed |-> TRUE,
                 key_list |-> kl.key_list]

-----------------------------------------------------------------------------
(* Record section and index construction *)

\* the line of an exception raised by get_index: MDD.get_index and
\* MDX.get_index are the same text at different lines
At(kind, mdd, mdx) == IF kind = "mdd" THEN mdd ELSE mdx

\* the boundary test with > for >=
BlockEndsOffByOne(record_start, offset, decompressed_size) ==
    record_start - offset > decompressed_size

\* the boundary test on the record offset alone, the block's offset forgotten
BlockEndsIgnoringOffset(record_start, offset, decompressed_size) ==
    record_start >= decompressed_size

\* lines 435 / 522: the key at record_start is not in the current block
BlockEnds(record_start, offset, decompressed_size) ==
    record_start - offset >= decompressed_size

\* lines 432 / 519: key_text.decode("utf-8"), the str of a bytes object
\* that holds the UTF-8 encoding of a text
utf8_decode(key_text) == Str(key_text[2])

\* lines 438-441 / 525-528
RecordEnd(key_list, i, decompressed_size, offset) ==
    IF i < Len(key_list) THEN key_list[i + 1][1] ELSE decompressed_size + offset

\* the while loop of lines 424-444 / 511-531 from key i on (1-based):
\* [i, index]
RECURSIVE assign_keys(_, _, _, _, _, _, _)
assign_keys(key_list, i, blk, current_pos, type, offset, index) ==
    IF i > Len(key_list) THEN [i |-> i, index |-> index]
    ELSE IF BlockEnds(key_list[i][1], offset, blk.dsize)
    THEN [i |-> i, index |-> index]
    ELSE assign_keys(key_list, i + 1, blk, current_pos, type, offset,
             Append(index,
                 [file_pos |-> current_pos,
                  compressed_size |-> blk.csize,
                  decompressed_size |-> blk.dsize,
                  record_block_type |-> type,
                  record_start |-> key_list[i][1],
                  key_text |-> utf8_decode(key_list[i][2]),
                  offset |-> offset,
                  record_end |-> RecordEnd(key_list, i, blk.dsize, offset)]))

\* lines 400-418 / 487-505: the locals _type and record_block after the type
\* switch; <<>> stands for a still unbound local
TypeAfterSwitch(blk, type) ==
    IF blk.tag \in {0, 1, 2} THEN <<blk.tag>> ELSE type

RecordBlockAfterSwitch(blk, record_block, check_block) ==
    IF blk.tag \in {0, 1, 2} /\ check_block THEN <<blk.body>> ELSE record_block

\* lines 420-422 / 507-509
CheckBlock(kind, blk, record_block) ==
    IF record_block = <<>>
    THEN "UnboundLocalError:" \o At(kind, "421", "508")
    ELSE IF blk.adler # zlib_adler32(record_block[1])
    THEN "AssertionError:" \o At(kind, "421", "508")
    ELSE IF record_block[1].len # blk.dsize
    THEN "AssertionError:" \o At(kind, "422", "509")
    ELSE NoError

\* the for loop of lines 394-447 / 481-534 from block b on:
\* [err, index, size_counter]
RECURSIVE index_blocks(_, _, _, _, _, _)
index_blocks(kind, key_list, blocks, b, check_block, st) ==
    IF b > Len(blocks) THEN [err |-> NoError, index |-> st.index,
                             size_counter |-> st.size_counter]
    ELSE IF LzoMissing(blocks[b].tag, st.lz)
    THEN [err |-> NoError, index |-> st.index, size_counter |-> st.size_counter]
    ELSE
    LET blk == blocks[b]
        type == TypeAfterSwitch(blk, st.type)
        rb == RecordBlockAfterSwitch(blk, st.record_block, check_block)
        chk == IF check_block THEN CheckBlock(kind, blk, rb) ELSE NoError
    IN  IF chk # NoError
        THEN [err |-> chk, index |-> st.index, size_counter |-> st.size_counter]
        ELSE IF st.i <= Len(key_list) /\ type = <<>>
        THEN [err |-> "UnboundLocalError:" \o At(kind, "429", "516"),
              index |-> st.index, size_counter |-> st.size_counter]
        ELSE
        LET a == assign_keys(key_list, st.i, blk, st.pos,
                             IF type = <<>> THEN 0 ELSE type[1],
                             st.offset, st.index)
        IN  index_blocks(kind, key_list, blocks, b + 1, check_block,
                [st EXCEPT !.i = a.i, !.index = a.index,
                           !.type = type, !.record_block = rb,
                           !.pos = @ + blk.csize,
                           !.offset = @ + blk.dsize,
                           !.size_counter = @ + blk.csize])

\* lines 446-450 of MDD.get_index, 533-535 of MDX.get_index: what follows
\* the loop over the record blocks
SizeCheck(kind, size_counter, record_block_size) ==
    IF kind = "mdd" /\ size_counter # record_block_size
    THEN "AssertionError:448" ELSE NoError

\* MDD: f.close() at line 449; MDX: the expression f.close at line 535
ClosesFile(kind) == kind = "mdd"

\* json.dumps(self._stylesheet) at line 539
JsonDumps(d) == IF DOMAIN d = {} THEN "{}" ELSE "TypeError:539"

\* MDD.get_index / MDX.get_index after the file is open:
\* [err, index, meta, closed]
get_index(slf, f, kind, check_block, lz) ==
    LET fail(e) == [err |-> e, index |-> <<>>, meta |-> <<>>, closed |-> FALSE]
        num_record_blocks == Len(f.rec_blocks)
        size_counter == num_record_blocks * slf.number_width * 2
    IN  IF f.rec_num_entries # slf.num_entries
        THEN fail("AssertionError:" \o At(kind, "378", "465"))
        ELSE IF size_counter # f.record_block_info_size
        THEN fail("AssertionError:" \o At(kind, "389", "476"))
        ELSE
        LET r == index_blocks(kind, slf.key_list, f.rec_blocks, 1, check_block,
                     [offset |-> 0, i |-> 1, size_counter |-> 0, index |-> <<>>,
                      type |-> <<>>, record_block |-> <<>>, lz |-> lz,
                      pos |-> slf.record_block_offset
                              + 4 * slf.number_width + size_counter])
            chk == SizeCheck(kind, r.size_counter, f.record_block_size)
        IN  IF r.err # NoError THEN fail(r.err)
            ELSE IF chk # NoError THEN fail(chk)
            ELSE IF kind = "mdd"
            THEN [err |-> NoError, index |-> r.index, meta |-> <<>>,
                  closed |-> ClosesFile(kind)]
            ELSE IF JsonDumps(slf.stylesheet) = "TypeError:539"
            THEN fail("TypeError:539")
            ELSE [err |-> NoError, index |-> r.index,
                  meta |-> <<[encoding |-> slf.encoding,
                              stylesheet |-> JsonDumps(slf.stylesheet),
                              title |-> slf.title,
                              description |-> slf.description]>>,
                  closed |-> ClosesFile(kind)]

\* a get_index that leaves the file position it reached in the object
get_index_seeking(slf) == [slf EXCEPT !.record_block_offset = @ + 1]

\* the object after get_index: the method binds locals only and assigns no
\* attribute of self
get_index_self(slf) == slf

\* MDict.keys, as the sequence the generator yields
keys(slf) == [i \in 1..Len(slf.key_list) |-> slf.key_list[i][2]]

\* MDict.__len__
len(slf) == slf.num_entries

-----------------------------------------------------------------------------
(* The archives and calls the model runs on *)

Absent == "<absent>"

Attr(name, v) == IF v = Absent THEN <<>> ELSE << <<name, <<v>> >> >>

RECURSIVE StyleLines(_)
StyleLines(n) ==
    IF n = 0 THEN <<>>
    ELSE StyleLines(n - 1) \o <<ToString(n), "&lt;b&gt;", "&lt;/b&gt;">>

\* style < 0: no StyleSheet attribute; otherwise one of `style` triples
StyleAttr(style) ==
    IF style < 0 THEN <<>> ELSE << <<"StyleSheet", StyleLines(style)>> >>

KeyBlock(tag, adler, entries, ks) ==
    [tag |-> tag, adler |-> adler, entries |-> entries,
     csize |-> 8 + Len(ks), dsize |-> 2 * Len(ks),
     body |-> [keys |-> ks, sum |-> 0]]

RecBlock(tag, adler, dsize, length) ==
    [tag |-> tag, adler |-> adler, csize |-> 8 + length, dsize |-> dsize,
     body |-> [len |-> length, sum |-> 0]]

\* n keys at record offsets first, first + 1, ...
KeysFrom(first, n) ==
    [j \in 1..n |-> <<first + j - 1, Bytes("k" \o ToString(first + j))>>]

\* the key list with the given record offsets
KeysAt(offsets) ==
    [j \in 1..Len(offsets) |-> <<offsets[j], Bytes("k" \o ToString(j))>>]

Defaults ==
    [ver |-> "2.0", enc |-> "UTF-8", encr |-> Absent, style |-> -1,
     reg |-> "EMail", hdr_ok |-> TRUE,
     nkb_delta |-> 0, ne_delta |-> 0, prelude_ok |-> TRUE,
     info_tag_ok |-> TRUE, info_adler_ok |-> TRUE, salsa_flip |-> FALSE,
     key_blocks |-> <<KeyBlock(2, 0, 2, KeysFrom(0, 2))>>,
     chunks |-> 1, hit |-> 1, exact |-> TRUE,
     rne_delta |-> 0, rbis_delta |-> 0, rbs_delta |-> 0,
     rec_blocks |-> <<RecBlock(2, 0, 2, 2)>>,
     kind |-> "mdx", encoding |-> "", passcode |-> "None", lzo |-> TRUE]

With(o) == [k \in DOMAIN Defaults |-> IF k \in DOMAIN o THEN o[k] ELSE Defaults[k]]

\* the archive and the call a parameter record stands for.  The prelude is
\* Salsa20-encrypted and the key-block-info obfuscated as the header's
\* Encrypted attribute says (salsa_flip: the prelude is not as it says).
Build(p) ==
    LET attrs == Attr("GeneratedByEngineVersion", p.ver) \o Attr("Encoding", p.enc)
                 \o Attr("Encrypted", p.encr) \o StyleAttr(p.style)
                 \o Attr("RegisterBy", p.reg)
        e == EncryptOf(parse_header(attrs))
        v2 == p.ver = "2.0"
        entries == SumSeq([i \in 1..Len(p.key_blocks) |-> p.key_blocks[i].entries])
    IN  [file |->
            [header_size |-> 2 * Len(attrs) + 2,
             hdr_adler |-> IF p.hdr_ok THEN 0 ELSE 1, hdr_sum |-> 0,
             attrs |-> attrs,
             salsa |-> (e % 2 = 1) # p.salsa_flip,
             num_key_blocks |-> Len(p.key_blocks) + p.nkb_delta,
             num_entries |-> entries + p.ne_delta,
             prelude_adler |-> IF p.prelude_ok THEN 0 ELSE 1, prelude_sum |-> 0,
             info |-> [tag_ok |-> p.info_tag_ok,
                       obfuscated |-> v2 /\ e % 4 >= 2,
                       truncated |-> FALSE,
                       adler |-> IF p.info_adler_ok THEN 0 ELSE 1, sum |-> 0,
                       size |-> 8 + 4 * Len(p.key_blocks),
                       items |-> [i \in 1..Len(p.key_blocks) |->
                                     [entries |-> p.key_blocks[i].entries,
                                      csize |-> p.key_blocks[i].csize,
                                      dsize |-> p.key_blocks[i].dsize]]],
             key_blocks |-> p.key_blocks,
             scan |-> [chunks |-> p.chunks, hit |-> p.hit, exact |-> p.exact],
             rec_num_entries |-> entries + p.ne_delta + p.rne_delta,
             record_block_info_size |->
                 Len(p.rec_blocks) * (IF v2 THEN 8 ELSE 4) * 2 + p.rbis_delta,
             record_block_size |->
                 SumSeq([i \in 1..Len(p.rec_blocks) |-> p.rec_blocks[i].csize])
                 + p.rbs_delta,
             rec_blocks |-> p.rec_blocks],
         args |-> [kind |-> p.kind,
                   encoding |-> IF p.kind = "mdd" THEN "UTF-16" ELSE p.encoding,
                   passcode |-> p.passcode],
         lzo |-> p.lzo]

\* the scan of the fallback can stop at the first key block only where that
\* block carries the tag searched for, and finds no marker past end of file
ScanPossible(p) ==
    /\ p.hit <= p.chunks
    /\ (p.hit > 0 /\ p.exact) =>
           /\ p.key_blocks # <<>>
           /\ p.key_blocks[1].tag = (IF p.ver = "2.0" THEN 2 ELSE 1)

\* headers: every attribute the header read looks at, present or not
HeaderArchives ==
    {With([ver |-> v, enc |-> e, encr |-> c, style |-> s, hdr_ok |-> h,
           kind |-> k, encoding |-> a, passcode |-> pw,
           key_blocks |-> <<KeyBlock(IF v = "1.2" THEN 1 ELSE 2, 0, 2, KeysFrom(0, 2))>>]) :
        v \in {Absent, "1.2", "2.0"},
        e \in {Absent, "UTF-8", "UTF-16", "GBK", "GB2312"},
        c \in {Absent, "No", "Yes", "2", "3"},
        s \in -1..MaxTriples,
        h \in BOOLEAN,
        k \in {"mdx", "mdd"},
        a \in {"", "utf-8"},
        pw \in {"None", "Good"}}

\* the sequences over S of length at most n
RECURSIVE SeqsUpTo(_, _)
SeqsUpTo(S, n) ==
    IF n = 0 THEN {<<>>}
    ELSE LET shorter == SeqsUpTo(S, n - 1)
         IN  shorter \cup {Append(q, x) : q \in {r \in shorter : Len(r) = n - 1}, x \in S}

Scans ==
    {sc \in [chunks : 0..MaxChunks, hit : 0..MaxChunks, exact : BOOLEAN] :
        sc.hit > 0 \/ sc.exact}

\* key sections: faults of the prelude and of the key-block-info
PreludeArchives ==
    {With([ver |-> v, encr |-> c, passcode |-> pw, reg |-> r,
           nkb_delta |-> nk, ne_delta |-> ne, prelude_ok |-> po,
           info_tag_ok |-> flags[1], info_adler_ok |-> flags[2],
           salsa_flip |-> flags[3],
           key_blocks |-> <<KeyBlock(IF v = "1.2" THEN 1 ELSE 2, 0, 2, KeysFrom(0, 2))>>]) :
        v \in {"1.2", "2.0"},
        c \in {Absent, "1", "2", "3"},
        pw \in {"None", "Good"},
        r \in {Absent, "EMail"},
        nk \in {0, 1}, ne \in {0, 1}, po \in BOOLEAN,
        flags \in [1..3 -> BOOLEAN]}

\* where the scan of the fallback finds its marker, the primary read having
\* failed on the prelude's checksum (2.0) or on the key-block count (1.2)
ScanArchives ==
    {With([ver |-> v, prelude_ok |-> FALSE, nkb_delta |-> IF v = "1.2" THEN 1 ELSE 0,
           info_adler_ok |-> io,
           chunks |-> sc.chunks, hit |-> sc.hit, exact |-> sc.exact,
           key_blocks |-> <<KeyBlock(IF v = "1.2" THEN 1 ELSE 2, 0, 2, KeysFrom(0, 2))>>]) :
        v \in {"1.2", "2.0"}, io \in BOOLEAN, sc \in Scans}

\* key blocks: any type tag and either stored checksum at every position
FaultyKeyBlocks ==
    {[i \in 1..Len(q) |-> KeyBlock(q[i][1], q[i][2],
                                   IF i = 1 THEN 1 + q[i][3] ELSE 1,
                                   KeysFrom(i - 1, 1))] :
        q \in SeqsUpTo((0..3) \X {0, 1} \X {0, 1}, MaxKeyBlocks)}

KeyBlockArchives ==
    {With([ver |-> v, lzo |-> lz, prelude_ok |-> po, key_blocks |-> kb,
           hit |-> h,
           rec_blocks |-> <<RecBlock(2, 0, Len(kb), Len(kb))>>]) :
        v \in {"1.2", "2.0"}, lz \in BOOLEAN, po \in BOOLEAN,
        kb \in {b \in FaultyKeyBlocks : \A i \in 2..Len(b) : b[i].entries = 1},
        h \in {0, 1}}

\* key lists with any record offsets over well-formed record blocks of any
\* decompressed size
OffsetArchives ==
    {With([key_blocks |-> <<KeyBlock(2, 0, Len(offs), KeysAt(offs))>>,
           rec_blocks |-> [i \in 1..Len(sizes) |->
                              RecBlock(2, 0, sizes[i], sizes[i])]]) :
        offs \in SeqsUpTo(0..MaxOffset, MaxKeys),
        sizes \in SeqsUpTo(0..MaxSize, MaxBlocks)}

\* record blocks: any type tag and either stored checksum at every
\* position, and the record_block_size counter right (0), one too large
\* (1) or short of the last block (2)
RecordBlockArchives ==
    {With([kind |-> k, lzo |-> lz, rbs_delta |-> IF rbs = 2 /\ tags # <<>>
                                                  THEN -9 ELSE IF rbs = 2 THEN 0 ELSE rbs,
           key_blocks |-> <<KeyBlock(2, 0, n, KeysFrom(0, n))>>,
           rec_blocks |-> [i \in 1..Len(tags) |->
                              RecBlock(tags[i][1], tags[i][2], 1, 1)]]) :
        k \in {"mdx", "mdd"}, lz \in BOOLEAN, rbs \in {0, 1, 2},
        n \in {0, 1},
        tags \in SeqsUpTo((0..3) \X {0, 1}, MaxBlocks)}

\* record section: the counters of its prelude and the decompressed length
\* of a block
RecordPreludeArchives ==
    {With([ver |-> v, kind |-> k, rne_delta |-> rne, rbis_delta |-> rbis,
           key_blocks |-> <<KeyBlock(IF v = "1.2" THEN 1 ELSE 2, 0, 2, KeysFrom(0, 2))>>,
           rec_blocks |-> <<RecBlock(t, 0, 2, length)>>]) :
        v \in {"1.2", "2.0"}, k \in {"mdx", "mdd"}, rne \in {0, 1},
        rbis \in {0, 1}, t \in {0, 2}, length \in {1, 2}}

\* a prelude that is not encrypted as the header says is taken up for
\* version 2.0, where its checksum is verified
PreludePossible(p) == p.salsa_flip => p.ver = "2.0"

-----------------------------------------------------------------------------
(* The HTTP front end of server.py *)

\* no application object: the reader is used on its own
NoServer ==
    [state |-> "none", exists |-> TRUE, mdict_db_instance |-> FALSE,
     response |-> <<>>]

\* the paths of the route handlers given to Litestar at line 210
RouteHandlers ==
    {"/health", "/word/{word:str}", "/favicon.ico", "/static/{filename:str}",
     "/api/sound/{path:path}", "/api/img/{filename:str}"}

\* the GET requests made of the application
Requests == {"/health", "/count", "/word/test"}

\* the route pattern a request path is an instance of
RouteOf(path) ==
    CASE path = "/word/test" -> "/word/{word:str}"
      [] OTHER -> path

\* what enhanced_word_lookup can give the handler of /word/{word}
Lookups == {"found", "none", "raised"}

\* the response to GET path: Litestar answers a path that no registered
\* handler matches with 404 and its JSON error body
Respond(path, instance, lookup) ==
    IF RouteOf(path) \notin RouteHandlers
    THEN [path |-> path, status |-> 404,
          json |-> <<[status_code |-> 404, detail |-> "Not Found"]>>,
          text |-> ""]
    ELSE IF path = "/health"
    THEN [path |-> path, status |-> 200,
          json |-> <<[status |-> "healthy"]>>, text |-> ""]
    ELSE IF ~instance
    THEN [path |-> path, status |-> 500, json |-> <<>>,
          text |-> "Dictionary not initialized"]
    ELSE IF lookup = "raised"
    THEN [path |-> path, status |-> 500, json |-> <<>>, text |-> "Error looking up"]
    ELSE IF lookup = "none"
    THEN [path |-> path, status |-> 200, json |-> <<>>, text |-> "No definition found"]
    ELSE [path |-> path, status |-> 200, json |-> <<>>, text |-> "definition"]

-----------------------------------------------------------------------------
(* The state machine *)

\* _split_key_block not entered
NoSplit ==
    [key_block |-> <<>>, key_start_index |-> 0, key_end_index |-> <<>>,
     key_list |-> <<>>, err |-> NoError]

\* the locals of the scan loop before its first iteration
NoScan == [chunk |-> 0, t |-> "unbound"]

NoResult ==
    [op |-> "none", check_block |-> FALSE, err |-> NoError, index |-> <<>>,
     meta |-> <<>>, keys |-> <<>>, len |-> 0]

\* lines 90-92 of MDict.__init__; MDD.__init__ passes encoding="UTF-16"
NewObject(a) ==
    [set |-> {"fname", "encoding", "passcode"},
     encoding |-> Upper(a.encoding),
     key_block_offset |-> 0, title |-> <<>>, description |-> <<>>,
     encrypt |-> 0, stylesheet |-> EmptyDict, version |-> 0,
     number_width |-> 0, header |-> EmptyDict, num_entries |-> 0,
     key_list |-> <<>>, record_block_offset |-> 0]

\* __init__ entered, lines 90-92 done, on an archive of the family P
InitOn(P) ==
    \E p \in P :
        /\ ScanPossible(p)
        /\ PreludePossible(p)
        /\ LET s == Build(p)
           IN  /\ file = s.file
               /\ args = s.args
               /\ lzo = s.lzo
               /\ self = NewObject(s.args)
        /\ pc = "read_header"
        /\ error = NoError
        /\ primary_error = NoError
        /\ scan = NoScan
        /\ result = NoResult
        /\ handles = 0
        /\ calls = 0
        /\ server = NoServer
        /\ split = NoSplit

\* the application object of line 209 is created; the dictionary file is
\* at LDOCE_PATH or not
ServerInit ==
    /\ \E found \in BOOLEAN :
           server = [state |-> "created", exists |-> found,
                     mdict_db_instance |-> FALSE, response |-> <<>>]
    /\ LET s == Build(Defaults)
       IN  /\ file = s.file
           /\ args = s.args
           /\ lzo = s.lzo
           /\ self = NewObject(s.args)
    /\ pc = "server"
    /\ split = NoSplit
    /\ error = NoError
    /\ primary_error = NoError
    /\ scan = NoScan
    /\ result = NoResult
    /\ handles = 0
    /\ calls = 0

\* _split_key_block entered (lines 199-200) on a decompressed key block of
\* a version 1.2 archive, given byte by byte
SplitInit ==
    /\ \E b \in SeqsUpTo(BlockBytes, MaxBlockLen), enc \in {"UTF-8", "UTF-16"} :
           /\ split = [NoSplit EXCEPT !.key_block = b]
           /\ self = Assign(Assign(NewObject(Build(Defaults).args),
                                   "number_width", 4), "encoding", enc)
    /\ LET s == Build(Defaults)
       IN  /\ file = s.file
           /\ args = s.args
           /\ lzo = s.lzo
    /\ pc = "split"
    /\ error = NoError
    /\ primary_error = NoError
    /\ scan = NoScan
    /\ result = NoResult
    /\ handles = 0
    /\ calls = 0
    /\ server = NoServer

Init ==
    \/ InitOn(OffsetArchives)
    \/ InitOn(HeaderArchives)
    \/ InitOn(PreludeArchives)
    \/ InitOn(ScanArchives)
    \/ InitOn(RecordPreludeArchives)
    \/ InitOn(RecordBlockArchives)
    \/ InitOn(KeyBlockArchives)
    \/ ServerInit
    \/ SplitInit

\* line 94: self.header = self._read_header(); an exception leaves __init__
ReadHeader ==
    /\ pc = "read_header"
    /\ LET r == read_header(self, file)
       IN  /\ self' = r.slf
           /\ handles' = handles + (IF r.closed THEN 0 ELSE 1)
           /\ error' = r.err
           /\ pc' = IF r.err = NoError THEN "read_keys" ELSE "failed"
    /\ UNCHANGED <<server, split, file, args, lzo, primary_error, scan, result, calls>>

\* lines 95-98: self._key_list = self._read_keys(), any exception caught
ReadKeys ==
    /\ pc = "read_keys"
    /\ LET r == read_keys(self, file, args, lzo)
       IN  /\ handles' = handles + (IF r.closed THEN 0 ELSE 1)
           /\ primary_error' = r.err
           /\ IF r.err = NoError
              THEN /\ self' = Assign(r.slf, "key_list", r.key_list)
                   /\ pc' = "open"
              ELSE /\ self' = r.slf
                   /\ pc' = "brutal"
    /\ UNCHANGED <<server, split, file, args, lzo, error, scan, result, calls>>

\* lines 329-342 of _read_keys_brutal, up to the while True loop
ReadKeysBrutal ==
    /\ pc = "brutal"
    /\ handles' = handles + 1
    /\ IF V2(self) /\ ~file.info.tag_ok
       THEN /\ error' = "AssertionError:342"
            /\ pc' = "failed"
       ELSE /\ error' = error
            /\ pc' = "brutal_scan"
    /\ scan' = NoScan
    /\ UNCHANGED <<server, split, file, args, lzo, self, primary_error, result, calls>>

\* lines 344-345, the head of an iteration: fpos = f.tell() and
\* t = f.read(1024), which is b"" at end of file
BrutalRead ==
    /\ pc = "brutal_scan"
    /\ scan' = IF scan.chunk < file.scan.chunks
               THEN [chunk |-> scan.chunk + 1, t |-> "data"]
               ELSE [chunk |-> scan.chunk, t |-> "empty"]
    /\ pc' = "brutal_find"
    /\ UNCHANGED <<server, split, file, args, lzo, self, error, primary_error,
                   result, handles, calls>>

\* lines 346-347 and 351-352, t.find gives -1: t is appended to
\* key_block_info and the loop goes on
BrutalScanMiss ==
    /\ pc = "brutal_find"
    /\ ~(scan.t = "data" /\ scan.chunk = file.scan.hit)
    /\ pc' = "brutal_scan"
    /\ UNCHANGED <<server, split, file, args, lzo, self, error, primary_error,
                   scan, result, handles, calls>>

\* lines 346-350 and 354-364: t.find gives the marker's index, and the rest
\* of _read_keys_brutal; an exception leaves __init__
BrutalScanHit ==
    /\ pc = "brutal_find"
    /\ scan.t = "data" /\ scan.chunk = file.scan.hit
    /\ LET r == read_keys_brutal_rest(self, file, lzo)
       IN  /\ handles' = handles - (IF r.closed THEN 1 ELSE 0)
           /\ error' = r.err
           /\ IF r.err = NoError
              THEN /\ self' = Assign(r.slf, "key_list", r.key_list)
                   /\ pc' = "open"
              ELSE /\ self' = r.slf
                   /\ pc' = "failed"
    /\ UNCHANGED <<server, split, file, args, lzo, primary_error, scan, result,
                   calls>>

\* a call of get_index on the opened archive
GetIndex ==
    /\ pc = "open"
    /\ calls < MaxCalls
    /\ \E check_block \in BOOLEAN :
        LET r == get_index(self, file, args.kind, check_block, lzo)
        IN  /\ result' = [NoResult EXCEPT !.op = "get_index",
                              !.check_block = check_block, !.err = r.err,
                              !.index = r.index, !.meta = r.meta]
            /\ handles' = handles + (IF r.closed THEN 0 ELSE 1)
    /\ self' = get_index_self(self)
    /\ calls' = calls + 1
    /\ UNCHANGED <<server, split, file, args, lzo, pc, error, primary_error, scan>>

\* a call of keys() on the opened archive, run to the end
Keys ==
    /\ pc = "open"
    /\ calls < MaxCalls
    /\ result' = [NoResult EXCEPT !.op = "keys", !.keys = keys(self)]
    /\ calls' = calls + 1
    /\ UNCHANGED <<server, split, file, args, lzo, pc, self, error, primary_error, scan, handles>>

\* a call of len() on the opened archive
LenCall ==
    /\ pc = "open"
    /\ calls < MaxCalls
    /\ result' = [NoResult EXCEPT !.op = "len", !.len = len(self)]
    /\ calls' = calls + 1
    /\ UNCHANGED <<server, split, file, args, lzo, pc, self, error, primary_error, scan, handles>>

\* startup_handler, lines 56-65: sys.exit(1) when the dictionary is not at
\* LDOCE_PATH; otherwise MdictDb(LDOCE_PATH) returns the instance or raises
Startup ==
    /\ server.state = "created"
    /\ IF ~server.exists
       THEN server' = [server EXCEPT !.state = "exited"]
       ELSE \E ok \in BOOLEAN :
               server' = IF ok
                         THEN [server EXCEPT !.state = "up",
                                             !.mdict_db_instance = TRUE]
                         ELSE [server EXCEPT !.state = "startup_failed"]
    /\ UNCHANGED <<split, file, args, lzo, pc, self, error, primary_error, scan,
                   result, handles, calls>>

\* a GET request served by the started application
Request ==
    /\ server.state = "up"
    /\ \E path \in Requests, lookup \in Lookups :
           server' = [server EXCEPT !.response =
                         <<Respond(path, server.mdict_db_instance, lookup)>>]
    /\ UNCHANGED <<split, file, args, lzo, pc, self, error, primary_error, scan,
                   result, handles, calls>>

\* an iteration of the outer loop of _split_key_block, line 201 holding
SplitIteration ==
    /\ pc = "split"
    /\ split.key_start_index < Len(split.key_block)
    /\ Len(split.key_list) < MaxSplitKeys
    /\ split' = split_iteration(self, split)
    /\ pc' = IF split'.err # NoError THEN "split_failed" ELSE "split"
    /\ UNCHANGED <<server, file, args, lzo, self, error, primary_error, scan,
                   result, handles, calls>>

\* line 226: the outer loop has ended and key_list is returned
SplitReturn ==
    /\ pc = "split"
    /\ split.key_start_index >= Len(split.key_block)
    /\ pc' = "split_done"
    /\ UNCHANGED <<server, split, file, args, lzo, self, error, primary_error,
                   scan, result, handles, calls>>

Next ==
    \/ ReadHeader
    \/ ReadKeys
    \/ ReadKeysBrutal
    \/ BrutalRead
    \/ BrutalScanMiss
    \/ BrutalScanHit
    \/ GetIndex
    \/ Keys
    \/ LenCall
    \/ Startup
    \/ Request
    \/ SplitIteration
    \/ SplitReturn

Spec == Init /\ [][Next]_vars

\* the steps of MDict.__init__: once called, the constructor runs on until it
\* returns or raises
Construct ==
    \/ ReadHeader
    \/ ReadKeys
    \/ ReadKeysBrutal
    \/ BrutalRead
    \/ BrutalScanMiss
    \/ BrutalScanHit

LiveSpec == Init /\ [][Next]_vars /\ WF_vars(Construct)

-----------------------------------------------------------------------------
(* What the claims speak about *)

\* a get_index call has returned its index
IndexReturned == result.op = "get_index" /\ result.err = NoError

\* a get_index call has ended in an exception
IndexRaised == result.op = "get_index" /\ result.err # NoError

\* __init__ has returned, the key list coming from _read_keys
OpenedPrimary == pc = "open" /\ primary_error = NoError

\* the value of the last attribute called name in the header text, as a
\* one-element sequence; <<>> when there is none
RECURSIVE LastAttr(_, _)
LastAttr(attrs, name) ==
    IF attrs = <<>> THEN <<>>
    ELSE IF attrs[Len(attrs)][1] = name THEN <<attrs[Len(attrs)][2]>>
    ELSE LastAttr(SubSeq(attrs, 1, Len(attrs) - 1), name)

\* the header says that the prelude is encrypted (bit 0 of Encrypted)
HeaderSaysSalsa ==
    LastAttr(file.attrs, "Encrypted") \in {<< <<"Yes">> >>, << <<"1">> >>, << <<"3">> >>}

RecBlockCSizes(n) == SumSeq([j \in 1..n |-> file.rec_blocks[j].csize])
RecBlockDSizes(n) == SumSeq([j \in 1..n |-> file.rec_blocks[j].dsize])

\* file position of record block b: the record section starts with four
\* counters and one pair of counters per block
RecBlockPos(b) ==
    self.record_block_offset + 4 * self.number_width
    + Len(file.rec_blocks) * 2 * self.number_width + RecBlockCSizes(b - 1)

\* the blocks of the sequence that a pass over it reaches: all of them, or
\* those up to the first LZO block when there is no LZO implementation
Reached(blocks) ==
    {i \in 1..Len(blocks) : \A j \in 1..(i - 1) : ~(blocks[j].tag = 1 /\ ~lzo)}

\* the record blocks a returned get_index has processed
Processed ==
    {i \in Reached(file.rec_blocks) : ~(file.rec_blocks[i].tag = 1 /\ ~lzo)}

\* the number of keys a returned get_index has assigned to the record blocks
\* up to block b
AssignedUpTo(b) ==
    Cardinality({k \in 1..Len(result.index) :
                    result.index[k].file_pos <= RecBlockPos(b)})

\* the exceptions raised by the reader's integrity assertions
CorruptArchiveErrors ==
    {"AssertionError:115", "AssertionError:120", "AssertionError:165",
     "AssertionError:194", "AssertionError:314", "AssertionError:318",
     "AssertionError:342", "AssertionError:378", "AssertionError:389",
     "AssertionError:421", "AssertionError:422", "AssertionError:448",
     "AssertionError:465", "AssertionError:476", "AssertionError:508",
     "AssertionError:509"}

-----------------------------------------------------------------------------
(* Claims *)

C2_KeyCountIsNumEntries ==
    OpenedPrimary => Len(keys(self)) = len(self)

\* C3 as stated: with bit 0 of Encrypted set and no passcode, __init__ never
\* returns, and when it ends it ends with the passcode-required error.
C3_PasscodeRequired ==
    (HeaderSaysSalsa /\ args.passcode = "None" /\ "header" \in self.set) =>
        /\ pc # "open"
        /\ pc = "failed" => error = "RuntimeError:292"

\* C4 as stated: get_index returns an index only if the compressed sizes of
\* the record blocks it processed sum to record_block_size.
C4_SizesSumToRecordBlockSize ==
    IndexReturned =>
        SumSeq([j \in 1..Cardinality(Processed) |-> file.rec_blocks[j].csize])
            = file.record_block_size

\* C5 as stated: with no LZO implementation, an operation that meets an LZO
\* key block (open) or an LZO record block (get_index) does not return.
C5_LzoMissingIsAnError ==
    ~lzo =>
        /\ pc = "open" => \A i \in 1..Len(file.key_blocks) : file.key_blocks[i].tag # 1
        /\ IndexReturned =>
               \A i \in 1..Len(file.rec_blocks) : file.rec_blocks[i].tag # 1

\* C6 as stated: a key block or record block with a type tag other than 0, 1
\* and 2, at any position the pass reaches, makes open, respectively
\* get_index with either check_block, end in a corrupt-archive error.
C6_UnknownTagIsCorruptArchive ==
    /\ (\E i \in Reached(file.key_blocks) : file.key_blocks[i].tag \notin {0, 1, 2}) =>
           /\ pc # "open"
           /\ (pc = "failed" /\ "header" \in self.set) => error \in CorruptArchiveErrors
    /\ (\E i \in Reached(file.rec_blocks) : file.rec_blocks[i].tag \notin {0, 1, 2}) =>
           /\ ~IndexReturned
           /\ IndexRaised => result.err \in CorruptArchiveErrors

\* C7: when the stored header checksum differs from the checksum of the
\* header bytes, __init__ ends in the assertion error of line 233 and never
\* gets to a key read: no primary read, no fallback, no key list, no
\* archive.
C7_HeaderChecksumFailsFast ==
    file.hdr_adler # file.hdr_sum =>
        /\ pc \in {"read_header", "failed"}
        /\ pc = "failed" => error = "AssertionError:233"
        /\ primary_error = NoError
        /\ self.set \cap {"header", "num_entries", "key_list", "record_block_offset"} = {}
        /\ scan.chunk = 0

\* C7 witness: __init__ has ended on a header whose checksum differs
C7_Witness ==
    file.hdr_adler # file.hdr_sum /\ pc = "failed" /\ error = "AssertionError:233"

\* C8 as stated: after a successful open the encoding is UTF-16 for an .mdd
\* archive; for an .mdx archive opened with no encoding it is the header's
\* Encoding with GBK and GB2312 mapped to GB18030, and UTF-8 when the
\* header has no Encoding, in which case open does not fail for it.
C8_EncodingAfterOpen ==
    LET enc == LastAttr(file.attrs, "Encoding")
    IN  /\ (pc = "open" /\ args.kind = "mdd") => self.encoding = "UTF-16"
        /\ (pc = "open" /\ args.kind = "mdx" /\ args.encoding = "" /\ enc # <<>>) =>
               self.encoding = (IF enc[1][1] \in {"GBK", "GB2312"}
                                THEN "GB18030" ELSE enc[1][1])
        /\ (args.kind = "mdx" /\ args.encoding = "" /\ enc = <<>>) =>
               /\ error # "KeyError:240"
               /\ pc = "open" => self.encoding = "UTF-8"

\* C9 as stated: after open, a StyleSheet attribute of 3n lines gives a
\* stylesheet mapping with one entry per triple, from the first line to the
\* pair of the second and third; the mapping is empty only when the
\* attribute is absent or empty.
C9_StyleSheetTriples ==
    LET st == LastAttr(file.attrs, "StyleSheet")
    IN  (pc = "open" /\ st # <<>> /\ Len(st[1]) % 3 = 0) =>
            /\ Cardinality(DOMAIN self.stylesheet) = Len(st[1]) \div 3
            /\ \A t \in 0..(Len(st[1]) \div 3 - 1) :
                   /\ st[1][3 * t + 1] \in DOMAIN self.stylesheet
                   /\ self.stylesheet[st[1][3 * t + 1]]
                          = <<UnescapeLine(st[1][3 * t + 2]),
                              UnescapeLine(st[1][3 * t + 3])>>

\* C10 as stated: when the primary key read raises and the fallback raises
\* too, __init__ ends with the primary read's exception.
C10_OriginalErrorSurfaced ==
    (pc = "failed" /\ primary_error # NoError) => error = primary_error

\* C11 as stated: once the header read, the primary key read, the fallback
\* key read or a get_index call has completed, by returning or by raising,
\* no file object it opened is left unclosed.
C11_NoHandleLeftOpen ==
    (pc \in {"read_keys", "brutal", "open", "failed"}) => handles = 0

\* C12 as stated: the application starts whether or not the dictionary file
\* is found, and answers GET /count with status 200 and a JSON body with
\* integer fields mdx and mdd, both 0 when the dictionary was not found.
C12_CountServed ==
    /\ (server.state \notin {"none", "created"} /\ ~server.exists) =>
           server.state = "up"
    /\ \A i \in 1..Len(server.response) :
           LET r == server.response[i]
           IN  r.path = "/count" =>
                   /\ r.status = 200
                   /\ r.json # <<>>
                   /\ {"mdx", "mdd"} \subseteq DOMAIN r.json[1]
                   /\ r.json[1].mdx \in Int
                   /\ r.json[1].mdd \in Int
                   /\ ~server.exists => r.json[1].mdx = 0 /\ r.json[1].mdd = 0

\* C13 as stated: a key is assigned to block b exactly when
\* record_offset - offset_b < decompressed_size_b as the key pointer reaches
\* it; a key whose record_offset equals offset_b + decompressed_size_b is
\* not assigned to b but to a later block, and two keys on either side of
\* a block boundary get different file_pos values.
C13_BoundaryKeyInLaterBlock ==
    IndexReturned =>
        /\ \A k \in 1..Len(result.index) :
               result.index[k].record_start - result.index[k].offset
                   < result.index[k].decompressed_size
        /\ \A b \in Processed :
               AssignedUpTo(b) < Len(self.key_list) =>
                   self.key_list[AssignedUpTo(b) + 1][1] - RecBlockDSizes(b - 1)
                       >= file.rec_blocks[b].dsize
        /\ \A j \in 1..Len(self.key_list), b \in 1..Len(file.rec_blocks) :
               self.key_list[j][1] = RecBlockDSizes(b) =>
                   /\ j <= Len(result.index)
                   /\ result.index[j].record_start = self.key_list[j][1]
                   /\ result.index[j].offset >= RecBlockDSizes(b)
        /\ \A k1, k2 \in 1..Len(result.index) :
               (/\ result.index[k1].record_start
                      < result.index[k1].offset + result.index[k1].decompressed_size
                /\ result.index[k2].record_start
                      >= result.index[k1].offset + result.index[k1].decompressed_size) =>
                   result.index[k1].file_pos # result.index[k2].file_pos

\* C13 amended: a key is assigned to block b exactly when
\* record_offset - offset_b < decompressed_size_b as the key pointer reaches
\* it; a key whose record_offset equals offset_b + decompressed_size_b is
\* not assigned to b, and where it is assigned it is to a later block; two
\* assigned keys on either side of a block boundary get different file_pos
\* values.
C13_BoundaryKeyNotInBlock ==
    IndexReturned =>
        /\ \A k \in 1..Len(result.index) :
               result.index[k].record_start - result.index[k].offset
                   < result.index[k].decompressed_size
        /\ \A b \in Processed :
               AssignedUpTo(b) < Len(self.key_list) =>
                   self.key_list[AssignedUpTo(b) + 1][1] - RecBlockDSizes(b - 1)
                       >= file.rec_blocks[b].dsize
        /\ \A k \in 1..Len(result.index), b \in 1..Len(file.rec_blocks) :
               result.index[k].record_start = RecBlockDSizes(b) =>
                   /\ result.index[k].file_pos > RecBlockPos(b)
                   /\ result.index[k].offset >= RecBlockDSizes(b)
        /\ \A k1, k2 \in 1..Len(result.index) :
               (/\ result.index[k1].record_start
                      < result.index[k1].offset + result.index[k1].decompressed_size
                /\ result.index[k2].record_start
                      >= result.index[k1].offset + result.index[k1].decompressed_size) =>
                   result.index[k1].file_pos # result.index[k2].file_pos

\* C13 witness: a returned index with a key in one block and the next key,
\* at that block's end exactly, in another block
C13_Witness ==
    /\ IndexReturned
    /\ \E k \in 1..(Len(result.index) - 1) :
           /\ result.index[k + 1].record_start
                  = result.index[k].offset + result.index[k].decompressed_size
           /\ result.index[k].record_start
                  = result.index[k].offset + result.index[k].decompressed_size - 1
           /\ result.index[k + 1].file_pos # result.index[k].file_pos

\* C14: on an opened archive no get_index, keys or len call changes the
\* key list, num_entries, the header, the encoding, the encryption bitmask,
\* the record-section offset or any other attribute of the object, nor the
\* archive file, and a get_index call that follows a get_index call with
\* the same check_block ends as that one did, with the same index.
C14_OpenedArchiveImmutable ==
    [][pc = "open" =>
          /\ self' = self
          /\ file' = file
          /\ pc' = "open"
          /\ (/\ result.op = "get_index"
              /\ result'.op = "get_index"
              /\ result'.check_block = result.check_block) =>
                 /\ result'.index = result.index
                 /\ result'.err = result.err
                 /\ result'.meta = result.meta]_vars

\* C14 witness: a second call on an opened archive, a get_index, has
\* returned an index that is not empty
C14_Witness ==
    /\ pc = "open"
    /\ calls >= 2
    /\ IndexReturned
    /\ result.index # <<>>

\* C16 as stated: every iteration of the outer loop of _split_key_block
\* that does not end it in an exception leaves the record start index
\* larger than it found it, so that the loop ends on every key block.
C16_SplitStartIncreases ==
    [][(pc = "split" /\ pc' = "split") =>
          split'.key_start_index > split.key_start_index]_vars

\* C15 as stated: the brutal-force fallback, once entered, ends: __init__
\* returns or raises, whatever the file holds after the scan's start.
C15_BrutalScanTerminates ==
    (pc = "brutal") ~> (pc \in {"open", "failed"})

\* C17 as stated: the key_text values of a returned index are, in order
\* and one record per key, those of a prefix of the key list, and of the
\* whole key list when every key's record_offset is below the total
\* decompressed size of the record blocks.
C17_IndexIsKeyListPrefix ==
    IndexReturned =>
        /\ Len(result.index) <= Len(self.key_list)
        /\ \A k \in 1..Len(result.index) :
               /\ result.index[k].key_text = utf8_decode(self.key_list[k][2])
               /\ result.index[k].record_start = self.key_list[k][1]
        /\ (\A j \in 1..Len(self.key_list) :
                self.key_list[j][1] < RecBlockDSizes(Len(file.rec_blocks))) =>
               Len(result.index) = Len(self.key_list)

====
